---------------------------- MODULE Spec2Model ----------------------------
(***************************************************************************)
(* Karnaugh-map engine of R3Dzf/KMAP: coordinate mapping (idx_to_rc,       *)
(* rc_to_bits_4), rectangle geometry (rect_cells, all_rects), the grouping *)
(* selector (select_group_rectangles), the expression-to-groups translator *)
(* (expression_to_groups), the minterm/expression conversions of logic.py  *)
(* and the minterm-mode input validation of app.py.                        *)
(***************************************************************************)
EXTENDS Integers, Sequences, FiniteSets, TLC

VARIABLES
    pc,           \* position of the running call / handler
    nvars,        \* number of variables n (app.py: st.number_input 2..4)
    orient,       \* orient_cols_is_ab
    minterms,     \* the minterm indices the request is about
    nrows, ncols, \* select_group_rectangles: grid size
    ones_cells,   \* select_group_rectangles: the 1-cells
    candidates,   \* select_group_rectangles: candidate list
    chosen,       \* select_group_rectangles: chosen list (the result)
    covered_all,  \* select_group_rectangles: covered cells
    remaining,    \* select_group_rectangles: cells left for the greedy loop
    essCount,     \* how many of chosen were appended by the essential loop
    args,         \* arguments of a pure-function call
    ret           \* its result

vars == <<pc, nvars, orient, minterms, nrows, ncols, ones_cells, candidates,
          chosen, covered_all, remaining, essCount, args, ret>>

selVars == <<nrows, ncols, ones_cells, candidates, chosen, covered_all,
             remaining, essCount>>

---------------------------------------------------------------------------
(* Small helpers on sequences and numbers.                                 *)

Pow2(k) == 2 ^ k

\* (x >> k) & 1
Bit(x, k) == (x \div Pow2(k)) % 2

Range(s) == {s[i] : i \in 1..Len(s)}

RECURSIVE Concat(_)
Concat(ss) == IF ss = <<>> THEN <<>> ELSE Head(ss) \o Concat(Tail(ss))

\* Python range(n) as a sequence 0, 1, ..., n-1
PyRange(n) == [i \in 1..n |-> i - 1]

Reverse(s) == [i \in 1..Len(s) |-> s[Len(s) + 1 - i]]

---------------------------------------------------------------------------
(* kmap_engine.py: coordinate mapper                                       *)

GRAY4 == << <<0, 0>>, <<0, 1>>, <<1, 1>>, <<1, 0>> >>

\* a mapper that places the bit pairs in binary order instead of Gray order
GrayIndex_binary(pair) == 2 * pair[1] + pair[2]

\* GRAY4.index(pair): position (0-based) of the first equal entry
GrayIndex(pair) == (CHOOSE i \in 1..Len(GRAY4) :
                       /\ GRAY4[i] = pair
                       /\ \A j \in 1..(i-1) : GRAY4[j] # pair) - 1

map_dimensions(n) ==
    IF n = 2 THEN <<2, 2>>
    ELSE IF n = 3 THEN <<2, 4>>
    ELSE IF n = 4 THEN <<4, 4>>
    ELSE "ValueError"

idx_to_rc(n, idx, o) ==
    IF n = 2 THEN
        LET a == Bit(idx, 1)
            b == Bit(idx, 0)
        IN  IF ~o THEN <<a, b>> ELSE <<b, a>>
    ELSE IF n = 3 THEN
        LET a == Bit(idx, 2)
            b == Bit(idx, 1)
            c == Bit(idx, 0)
        IN  <<a, GrayIndex(<<b, c>>)>>
    ELSE IF n = 4 THEN
        LET a == Bit(idx, 3)
            b == Bit(idx, 2)
            c == Bit(idx, 1)
            d == Bit(idx, 0)
        IN  IF o THEN <<GrayIndex(<<c, d>>), GrayIndex(<<a, b>>)>>
                 ELSE <<GrayIndex(<<a, b>>), GrayIndex(<<c, d>>)>>
    ELSE "ValueError"

\* the two orientations exchanged
rc_to_bits_4_swapped(r, c, o) ==
    IF ~o THEN <<GRAY4[c + 1][1], GRAY4[c + 1][2], GRAY4[r + 1][1], GRAY4[r + 1][2]>>
          ELSE <<GRAY4[r + 1][1], GRAY4[r + 1][2], GRAY4[c + 1][1], GRAY4[c + 1][2]>>

\* returns <<A, B, C, D>>
rc_to_bits_4(r, c, o) ==
    IF o THEN <<GRAY4[c + 1][1], GRAY4[c + 1][2], GRAY4[r + 1][1], GRAY4[r + 1][2]>>
         ELSE <<GRAY4[r + 1][1], GRAY4[r + 1][2], GRAY4[c + 1][1], GRAY4[c + 1][2]>>

map_minterms_to_cells(n, mins, o) == {idx_to_rc(n, m, o) : m \in mins}

---------------------------------------------------------------------------
(* kmap_engine.py: rectangle geometry                                      *)

rect_cells(r0, rows, c0, cols, nr, nc) ==
    {<<(r0 + dr) % nr, (c0 + dc) % nc>> : dr \in 0..(rows - 1), dc \in 0..(cols - 1)}

RECURSIVE PowerSizesFrom(_, _)
PowerSizesFrom(sizes, limit) ==
    IF sizes[Len(sizes)] * 2 <= limit
    THEN PowerSizesFrom(Append(sizes, sizes[Len(sizes)] * 2), limit)
    ELSE sizes

\* the loop test written < instead of <=: the full span is never produced
RECURSIVE PowerSizesFrom_strict(_, _)
PowerSizesFrom_strict(sizes, limit) ==
    IF sizes[Len(sizes)] * 2 < limit
    THEN PowerSizesFrom_strict(Append(sizes, sizes[Len(sizes)] * 2), limit)
    ELSE sizes

_power_sizes_strict(limit) == PowerSizesFrom_strict(<<1>>, limit)

_power_sizes(limit) == PowerSizesFrom(<<1>>, limit)

RectArea(t) == t[2] * t[4]

\* the nested loops of all_rects, before the sort: tuples <<r0, rows, c0, cols>>
AllRectsUnsorted(nr, nc) ==
    LET sr == Reverse(_power_sizes(nr))
        sc == Reverse(_power_sizes(nc))
    IN  Concat([i \in 1..Len(sr) |->
          Concat([j \in 1..Len(sc) |->
            Concat([r \in 1..nr |->
              [c \in 1..nc |-> <<r - 1, sr[i], c - 1, sc[j]>>]])])])

\* the sort without reverse=True: stable, ascending area
SortByAreaAsc(rects) ==
    LET areas == {RectArea(rects[i]) : i \in 1..Len(rects)}
        maxA  == IF areas = {} THEN 0 ELSE CHOOSE a \in areas : \A b \in areas : b <= a
    IN  Concat([k \in 1..maxA |-> SelectSeq(rects, LAMBDA t : RectArea(t) = k)])

\* list.sort(key=area, reverse=True): stable, descending area
SortByAreaDesc(rects) ==
    LET areas == {RectArea(rects[i]) : i \in 1..Len(rects)}
        maxA  == IF areas = {} THEN 0 ELSE CHOOSE a \in areas : \A b \in areas : b <= a
    IN  Concat([k \in 1..maxA |->
                  SelectSeq(rects, LAMBDA t : RectArea(t) = maxA + 1 - k)])

all_rects(nr, nc) == SortByAreaDesc(AllRectsUnsorted(nr, nc))

GroupRect(r0, rows, c0, cols, cells) ==
    [r0 |-> r0, rows |-> rows, c0 |-> c0, cols |-> cols, cells |-> cells]

---------------------------------------------------------------------------
(* kmap_engine.py: select_group_rectangles                                 *)

\* lines 123-134: the GroupRect built for each rectangle of all_rects, in
\* all_rects order (before the subset test of line 127)
RectGroups(nr, nc) ==
    LET rects == all_rects(nr, nc)
    IN  SelectSeq([i \in 1..Len(rects) |->
                     GroupRect(rects[i][1], rects[i][2], rects[i][3], rects[i][4],
                               rect_cells(rects[i][1], rects[i][2], rects[i][3],
                                          rects[i][4], nr, nc))],
                  LAMBDA g : TRUE)

\* The rectangles depend on the grid alone: they are built once for each of
\* the three grids of map_dimensions.
GridGroups == [n \in 2..4 |-> RectGroups(map_dimensions(n)[1], map_dimensions(n)[2])]

GridGroupsOf(nr, nc) ==
    GridGroups[CHOOSE n \in 2..4 : map_dimensions(n) = <<nr, nc>>]

\* the subset test weakened to an overlap test
Candidates_overlap(nr, nc, ones) ==
    SelectSeq(GridGroupsOf(nr, nc), LAMBDA g : g.cells # {} /\ g.cells \cap ones # {})

\* lines 123-136: the candidate list
Candidates(nr, nc, ones) ==
    SelectSeq(GridGroupsOf(nr, nc), LAMBDA g : g.cells # {} /\ g.cells \subseteq ones)

\* containing = [g for g in candidates if cell in g.cells]
Containing(cands, cell) == SelectSeq(cands, LAMBDA g : cell \in g.cells)

\* max(candidates, key=lambda g: len(g.cells & remaining)): first maximum
Overlap(g, rem) == Cardinality(g.cells \cap rem)

\* max() taken as the last of the maxima
Best_last(cands, rem) ==
    LET keys == {Overlap(cands[i], rem) : i \in 1..Len(cands)}
        top  == CHOOSE a \in keys : \A b \in keys : b <= a
        tops == SelectSeq(cands, LAMBDA g : Overlap(g, rem) = top)
    IN  tops[Len(tops)]

\* max() returns the first element whose key equals the largest key
Best(cands, rem) ==
    LET keys == {Overlap(cands[i], rem) : i \in 1..Len(cands)}
        top  == CHOOSE a \in keys : \A b \in keys : b <= a
    IN  Head(SelectSeq(cands, LAMBDA g : Overlap(g, rem) = top))

\* the essential loop without covered_all |= set(group.cells)
RECURSIVE AddEssentials_nocover(_, _, _)
AddEssentials_nocover(ess, ch, cov) ==
    IF ess = <<>> THEN <<ch, cov>>
    ELSE IF Head(ess) \in Range(ch)
         THEN AddEssentials_nocover(Tail(ess), ch, cov)
         ELSE AddEssentials_nocover(Tail(ess), Append(ch, Head(ess)), cov)

\* for group in essentials: if group not in chosen: append, cover
RECURSIVE AddEssentials(_, _, _)
AddEssentials(ess, ch, cov) ==
    IF ess = <<>> THEN <<ch, cov>>
    ELSE IF Head(ess) \in Range(ch)
         THEN AddEssentials(Tail(ess), ch, cov)
         ELSE AddEssentials(Tail(ess), Append(ch, Head(ess)), cov \cup Head(ess).cells)

\* for cell in ones_cells - covered_all: the cells of a Python set are visited
\* in an order the language leaves to the implementation.  Only the cells
\* with exactly one containing candidate append to essentials, so the order
\* of those cells is the order of the essentials list: every order is taken.
EssentialCells_any(cands, ones, cov) ==
    {cell \in ones \ cov : Len(Containing(cands, cell)) >= 1}

EssentialCells(cands, ones, cov) ==
    {cell \in ones \ cov : Len(Containing(cands, cell)) = 1}

RECURSIVE Orders(_)
Orders(S) == IF S = {} THEN {<<>>}
             ELSE UNION {{<<x>> \o p : p \in Orders(S \ {x})} : x \in S}

SelStart ==
    /\ pc = "select"
    /\ IF ones_cells = {}
       THEN /\ chosen' = <<>>
            /\ pc' = "done"
            /\ UNCHANGED <<candidates, covered_all>>
       ELSE /\ candidates' = Candidates(nrows, ncols, ones_cells)
            /\ chosen' = <<>>
            /\ covered_all' = {}
            /\ pc' = "essential"
    /\ UNCHANGED <<nvars, orient, minterms, nrows, ncols, ones_cells, remaining,
                   essCount, args, ret>>

SelEssentialPass ==
    /\ pc = "essential"
    /\ LET E == EssentialCells(candidates, ones_cells, covered_all)
       IN  IF E = {}
           THEN /\ remaining' = ones_cells \ covered_all
                /\ essCount' = Len(chosen)
                /\ pc' = "greedy"
                /\ UNCHANGED <<chosen, covered_all>>
           ELSE \E order \in Orders(E) :
                  LET ess == [i \in 1..Len(order) |-> Containing(candidates, order[i])[1]]
                      res == AddEssentials(ess, chosen, covered_all)
                  IN  /\ chosen' = res[1]
                      /\ covered_all' = res[2]
                      /\ UNCHANGED <<remaining, essCount, pc>>
    /\ UNCHANGED <<nvars, orient, minterms, nrows, ncols, ones_cells, candidates,
                   args, ret>>

SelGreedyStep ==
    /\ pc = "greedy"
    /\ remaining # {}
    /\ LET best == Best(candidates, remaining)
       IN  IF best.cells \cap remaining = {}
           THEN /\ pc' = "done"
                /\ UNCHANGED <<chosen, covered_all, remaining>>
           ELSE /\ chosen' = Append(chosen, best)
                /\ covered_all' = covered_all \cup best.cells
                /\ remaining' = ones_cells \ (covered_all \cup best.cells)
                /\ UNCHANGED pc
    /\ UNCHANGED <<nvars, orient, minterms, nrows, ncols, ones_cells, candidates,
                   essCount, args, ret>>

SelReturn ==
    /\ pc = "greedy"
    /\ remaining = {}
    /\ pc' = "done"
    /\ UNCHANGED <<nvars, orient, minterms, selVars, args, ret>>

\* app.py lines 154, 198, 201: the grid of n and the cells of the minterms,
\* for every n the page offers and every set of minterm indices
InitSelect ==
    /\ nvars \in 2..4
    /\ orient = TRUE
    /\ minterms \in SUBSET (0..(Pow2(nvars) - 1))
    /\ nrows = map_dimensions(nvars)[1]
    /\ ncols = map_dimensions(nvars)[2]
    /\ ones_cells = map_minterms_to_cells(nvars, minterms, orient)
    /\ candidates = <<>>
    /\ chosen = <<>>
    /\ covered_all = {}
    /\ remaining = {}
    /\ essCount = 0
    /\ args = <<>>
    /\ ret = <<>>
    /\ pc = "select"

NextSelect == SelStart \/ SelEssentialPass \/ SelGreedyStep \/ SelReturn

SpecSelect == InitSelect /\ [][NextSelect]_vars

---------------------------------------------------------------------------
(* kmap_engine.py: label_rect_4, and the labelling loop of app.py          *)

VarNames == <<"A", "B", "C", "D">>

\* the prime put on the variables that are constant 1
label_rect_4_inverted(group, o) ==
    LET values(k) == {rc_to_bits_4(cell[1], cell[2], o)[k] : cell \in group.cells}
        piece(k) == IF values(k) = {1} THEN VarNames[k] \o "'"
                    ELSE IF values(k) = {0} THEN VarNames[k]
                    ELSE ""
        joined == piece(1) \o piece(2) \o piece(3) \o piece(4)
    IN  IF joined = "" THEN "1" ELSE joined

label_rect_4(group, o) ==
    LET values(k) == {rc_to_bits_4(cell[1], cell[2], o)[k] : cell \in group.cells}
        piece(k) == IF values(k) = {0} THEN VarNames[k] \o "'"
                    ELSE IF values(k) = {1} THEN VarNames[k]
                    ELSE ""
        joined == piece(1) \o piece(2) \o piece(3) \o piece(4)
    IN  IF joined = "" THEN "1" ELSE joined

\* app.py line 210: label = label_rect_4(g, True) if n == 4 else ""
app_label(g, n) == IF n = 4 THEN label_rect_4(g, TRUE) ELSE ""

\* app.py lines 203-221: one label per returned group
AppLabelGroups ==
    /\ pc = "done"
    /\ ret' = [i \in 1..Len(chosen) |-> app_label(chosen[i], nvars)]
    /\ pc' = "labelled"
    /\ UNCHANGED <<nvars, orient, minterms, selVars, args>>

\* The minterms of a product term: fixed maps each variable of the term
\* (1 = first variable, the most significant bit) to the value it is fixed to.
TermMinterms(fixed, n) ==
    {idx \in 0..(Pow2(n) - 1) : \A v \in DOMAIN fixed : Bit(idx, n - v) = fixed[v]}

Terms(n) == UNION {[S -> {0, 1}] : S \in SUBSET (1..n)}

\* select_group_rectangles on the cells of one product term, then the labels
InitLabel ==
    /\ nvars \in 2..4
    /\ orient = TRUE
    /\ args \in Terms(nvars)
    /\ minterms = TermMinterms(args, nvars)
    /\ nrows = map_dimensions(nvars)[1]
    /\ ncols = map_dimensions(nvars)[2]
    /\ ones_cells = map_minterms_to_cells(nvars, minterms, orient)
    /\ candidates = <<>>
    /\ chosen = <<>>
    /\ covered_all = {}
    /\ remaining = {}
    /\ essCount = 0
    /\ ret = <<>>
    /\ pc = "select"

NextLabel == SelStart \/ SelEssentialPass \/ SelGreedyStep \/ SelReturn \/ AppLabelGroups

SpecLabel == InitLabel /\ [][NextLabel]_vars

---------------------------------------------------------------------------
(* Coordinate mapper calls: idx_to_rc on two indices, then rc_to_bits_4    *)

InitCoord ==
    /\ nvars \in 2..4
    /\ orient \in BOOLEAN
    /\ args \in [i : 0..(Pow2(nvars) - 1), j : 0..(Pow2(nvars) - 1)]
    /\ minterms = {args.i, args.j}
    /\ nrows = 0 /\ ncols = 0
    /\ ones_cells = {}
    /\ candidates = <<>>
    /\ chosen = <<>>
    /\ covered_all = {}
    /\ remaining = {}
    /\ essCount = 0
    /\ ret = <<>>
    /\ pc = "coord"

CoordMap ==
    /\ pc = "coord"
    /\ nrows' = map_dimensions(nvars)[1]
    /\ ncols' = map_dimensions(nvars)[2]
    /\ ret' = [rc |-> <<idx_to_rc(nvars, args.i, orient), idx_to_rc(nvars, args.j, orient)>>,
               bits |-> <<>>]
    /\ pc' = "mapped"
    /\ UNCHANGED <<nvars, orient, minterms, ones_cells, candidates, chosen,
                   covered_all, remaining, essCount, args>>

CoordBits ==
    /\ pc = "mapped"
    /\ nvars = 4
    /\ ret' = [ret EXCEPT !.bits =
                 <<rc_to_bits_4(ret.rc[1][1], ret.rc[1][2], orient),
                   rc_to_bits_4(ret.rc[2][1], ret.rc[2][2], orient)>>]
    /\ pc' = "bits"
    /\ UNCHANGED <<nvars, orient, minterms, selVars, args>>

NextCoord == CoordMap \/ CoordBits

SpecCoord == InitCoord /\ [][NextCoord]_vars

---------------------------------------------------------------------------
(* Expressions.  The values expr can be: the Python constants True, False  *)
(* and None, SymPy's constants true and false (BooleanAtom), and SymPy     *)
(* trees of Symbol, Not, And, Or.  Variables are numbered 1..n in          *)
(* vars_tuple order.                                                       *)

PyBool(b)  == [kind |-> "PyBool", val |-> b]
PyNone     == [kind |-> "None"]
SymBool(b) == [kind |-> "BooleanAtom", val |-> b]
Sym(v)     == [kind |-> "Symbol", var |-> v]
NotE(e)    == [kind |-> "Not", args |-> <<e>>]

\* And(*args): no argument gives true, one argument gives the argument
AndE(seq) == IF seq = <<>> THEN SymBool(TRUE)
             ELSE IF Len(seq) = 1 THEN seq[1]
             ELSE [kind |-> "And", args |-> seq]

\* Or(*args): no argument gives false, one argument gives the argument
OrE(seq) == IF seq = <<>> THEN SymBool(FALSE)
            ELSE IF Len(seq) = 1 THEN seq[1]
            ELSE [kind |-> "Or", args |-> seq]

\* itertools.product([0, 1], repeat=n): the tuples in lexicographic order
RECURSIVE Product(_)
Product(n) ==
    IF n = 0 THEN << <<>> >>
    ELSE LET p == Product(n - 1)
         IN  [i \in 1..Len(p) |-> <<0>> \o p[i]] \o [i \in 1..Len(p) |-> <<1>> \o p[i]]

---------------------------------------------------------------------------
(* logic.py: minterms_to_expression, truth_minterms                        *)

\* the empty list returned as the SymPy constant false
minterms_to_expression_sympy_false(mins, n) ==
    OrE([k \in 1..Len(mins) |->
           AndE([i \in 1..n |->
                   IF Bit(mins[k], n - 1 - (i - 1)) = 1 THEN Sym(i) ELSE NotE(Sym(i))])])

minterms_to_expression(mins, n) ==
    IF mins = <<>> THEN PyBool(FALSE)
    ELSE OrE([k \in 1..Len(mins) |->
                AndE([i \in 1..n |->
                        IF Bit(mins[k], n - 1 - (i - 1)) = 1 THEN Sym(i) ELSE NotE(Sym(i))])])

\* bool(expr.xreplace(subs)) for a SymPy expression; bits[v] is the value of
\* variable v
RECURSIVE EvalExpr(_, _)
EvalExpr(e, bits) ==
    IF e.kind = "BooleanAtom" THEN e.val
    ELSE IF e.kind = "Symbol" THEN bits[e.var] = 1
    ELSE IF e.kind = "Not" THEN ~EvalExpr(e.args[1], bits)
    ELSE IF e.kind = "And" THEN \A i \in 1..Len(e.args) : EvalExpr(e.args[i], bits)
    ELSE \E i \in 1..Len(e.args) : EvalExpr(e.args[i], bits)

\* only SymPy objects have xreplace
HasXreplace(e) == e.kind \notin {"PyBool", "None"}

truth_minterms(expr, n) ==
    LET prod == Product(n)
    IN  SelectSeq(PyRange(Len(prod)), LAMBDA idx : EvalExpr(expr, prod[idx + 1]))

RECURSIVE SortedSeq(_)
SortedSeq(S) == IF S = {} THEN <<>>
                ELSE LET m == CHOOSE m \in S : \A x \in S : m <= x
                     IN  <<m>> \o SortedSeq(S \ {m})

\* Round trip: a set of minterm indices, as a list, through
\* minterms_to_expression and then truth_minterms
InitLogic ==
    /\ nvars \in 2..4
    /\ orient = TRUE
    /\ minterms \in SUBSET (0..(Pow2(nvars) - 1))
    /\ args = SortedSeq(minterms)
    /\ nrows = 0 /\ ncols = 0
    /\ ones_cells = {}
    /\ candidates = <<>>
    /\ chosen = <<>>
    /\ covered_all = {}
    /\ remaining = {}
    /\ essCount = 0
    /\ ret = [expr |-> PyNone, mins |-> <<>>, error |-> ""]
    /\ pc = "build"

LogicBuild ==
    /\ pc = "build"
    /\ ret' = [ret EXCEPT !.expr = minterms_to_expression(args, nvars)]
    /\ pc' = "built"
    /\ UNCHANGED <<nvars, orient, minterms, selVars, args>>

LogicTruth ==
    /\ pc = "built"
    /\ HasXreplace(ret.expr)
    /\ ret' = [ret EXCEPT !.mins = truth_minterms(ret.expr, nvars)]
    /\ pc' = "evaluated"
    /\ UNCHANGED <<nvars, orient, minterms, selVars, args>>

LogicTruthRaise ==
    /\ pc = "built"
    /\ ~HasXreplace(ret.expr)
    /\ ret' = [ret EXCEPT !.error = "AttributeError: object has no attribute 'xreplace'"]
    /\ pc' = "raised"
    /\ UNCHANGED <<nvars, orient, minterms, selVars, args>>

NextLogic == LogicBuild \/ LogicTruth \/ LogicTruthRaise

SpecLogic == InitLogic /\ [][NextLogic]_vars

---------------------------------------------------------------------------
(* kmap_engine.py: _contiguous_span, _term_to_minterms,                    *)
(* expression_to_groups.  A raised ValueError is the result                *)
(* [error |-> message]; a normal return has error = "".                    *)

SpanError == "Cells do not form a contiguous span on the map."
FactorError == "Unsupported factor within implicant."

\* the span tested without the wrap-around
_contiguous_span_nowrap(coords, size) ==
    LET length == Cardinality(coords)
        starts == {start \in 0..(size - 1) :
                     {start + offset : offset \in 0..(length - 1)} = coords}
    IN  IF starts = {} THEN [error |-> SpanError, start |-> 0, length |-> 0]
        ELSE [error |-> "",
              start |-> CHOOSE m \in starts : \A x \in starts : m <= x,
              length |-> length]

\* the first start in range(size) whose run of len(unique) indices, taken
\* modulo size, is the set
_contiguous_span(coords, size) ==
    LET length == Cardinality(coords)
        starts == {start \in 0..(size - 1) :
                     {(start + offset) % size : offset \in 0..(length - 1)} = coords}
    IN  IF starts = {} THEN [error |-> SpanError, start |-> 0, length |-> 0]
        ELSE [error |-> "",
              start |-> CHOOSE m \in starts : \A x \in starts : m <= x,
              length |-> length]

\* lines 198-206: factor by factor; a later factor on the same symbol
\* overwrites the earlier one
IsPositive(f) == f.kind = "Symbol"
IsNegative(f) == f.kind = "Not" /\ f.args[1].kind = "Symbol"

Factors(term) == IF term.kind = "And" THEN term.args ELSE <<term>>

RECURSIVE FixedOf(_, _)
FixedOf(factors, fixed) ==
    IF factors = <<>> THEN fixed
    ELSE LET f == Head(factors)
             v == IF IsPositive(f) THEN f.var ELSE f.args[1].var
             b == IF IsPositive(f) THEN 1 ELSE 0
         IN  FixedOf(Tail(factors),
                     [w \in DOMAIN fixed \cup {v} |-> IF w = v THEN b ELSE fixed[w]])

\* lines 208-217: one index per tuple of product([0,1], repeat=len(free_vars))
RECURSIVE ShiftIn(_, _, _)
ShiftIn(assignment, n, v) ==
    IF v = 0 THEN 0 ELSE ShiftIn(assignment, n, v - 1) * 2 + assignment[v]

_term_to_minterms(term, n) ==
    LET factors == Factors(term)
    IN  IF \E i \in 1..Len(factors) : ~IsPositive(factors[i]) /\ ~IsNegative(factors[i])
        THEN [error |-> FactorError, mins |-> <<>>]
        ELSE LET fixed == FixedOf(factors, <<>>)
                 free_vars == SelectSeq([v \in 1..n |-> v], LAMBDA v : v \notin DOMAIN fixed)
                 prod == Product(Len(free_vars))
                 assignment(bits) ==
                     [v \in 1..n |->
                        IF v \in DOMAIN fixed THEN fixed[v]
                        ELSE bits[CHOOSE k \in 1..Len(free_vars) : free_vars[k] = v]]
             IN  [error |-> "",
                  mins |-> SubSeq([k \in 1..Len(prod) |-> ShiftIn(assignment(prod[k]), n, n)],
                                  1, Len(prod))]

\* expr in (False, None): == holds for Python False, for SymPy false (whose
\* _eq_ sympifies the other side) and for None itself
InFalseNone(expr) ==
    \/ expr.kind = "None"
    \/ (expr.kind \in {"PyBool", "BooleanAtom"} /\ ~expr.val)

\* expr is True: identity with the Python constant
IsPyTrue(expr) == expr.kind = "PyBool" /\ expr.val

\* lines 243-258 for one term
TermGroup(term, n, o) ==
    LET nr == map_dimensions(n)[1]
        nc == map_dimensions(n)[2]
        tm == _term_to_minterms(term, n)
        cells == {idx_to_rc(n, tm.mins[k], o) : k \in 1..Len(tm.mins)}
        rspan == _contiguous_span({cell[1] : cell \in cells}, nr)
        cspan == _contiguous_span({cell[2] : cell \in cells}, nc)
    IN  IF tm.error # "" THEN [error |-> tm.error, group |-> <<>>]
        ELSE IF rspan.error # "" THEN [error |-> rspan.error, group |-> <<>>]
        ELSE IF cspan.error # "" THEN [error |-> cspan.error, group |-> <<>>]
        ELSE [error |-> "",
              group |-> GroupRect(rspan.start, rspan.length, cspan.start, cspan.length, cells)]

expression_to_groups(expr, n, o) ==
    IF InFalseNone(expr) THEN [error |-> "", groups |-> <<>>]
    ELSE IF IsPyTrue(expr)
    THEN [error |-> "",
          groups |-> <<GroupRect(0, map_dimensions(n)[1], 0, map_dimensions(n)[2],
                                 {idx_to_rc(n, idx, o) : idx \in 0..(Pow2(n) - 1)})>>]
    ELSE LET terms == IF expr.kind = "Or" THEN expr.args ELSE <<expr>>
             made == SubSeq([k \in 1..Len(terms) |-> TermGroup(terms[k], n, o)],
                            1, Len(terms))
             bad == {k \in 1..Len(terms) : made[k].error # ""}
         IN  IF bad # {}
             THEN [error |-> made[CHOOSE k \in bad : \A j \in bad : k <= j].error,
                   groups |-> <<>>]
             ELSE [error |-> "", groups |-> [k \in 1..Len(terms) |-> made[k].group]]

\* A product term as SymPy holds it: a literal, or And of two or more
TermExpr(fixed, n) ==
    AndE([k \in 1..Cardinality(DOMAIN fixed) |->
            LET v == SortedSeq(DOMAIN fixed)[k]
            IN  IF fixed[v] = 1 THEN Sym(v) ELSE NotE(Sym(v))])

\* Or keeps each term once, in one canonical order: the terms are numbered
\* (base 3, one digit per variable) and listed in increasing number.
RECURSIVE TermCode(_, _)
TermCode(fixed, v) ==
    IF v = 0 THEN 0
    ELSE 3 * TermCode(fixed, v - 1) + (IF v \in DOMAIN fixed THEN fixed[v] + 1 ELSE 0)

MaxTerms == 2

RECURSIVE TermLists(_, _)
TermLists(n, k) ==
    IF k = 0 THEN {<<>>}
    ELSE LET shorter == TermLists(n, k - 1)
             longest == {l \in shorter : Len(l) = k - 1}
             grows(l, t) == l = <<>> \/ TermCode(l[Len(l)], n) < TermCode(t, n)
         IN  shorter \cup
             {Append(p[1], p[2]) :
                p \in {q \in longest \X (Terms(n) \ {<<>>}) : grows(q[1], q[2])}}

\* what the simplifier hands over (a constant, a term, an Or of terms), and
\* the Python constants the function tests for
ExprInputs(n) ==
    {PyBool(TRUE), PyBool(FALSE), PyNone, SymBool(TRUE), SymBool(FALSE)}
    \cup {OrE([k \in 1..Len(l) |-> TermExpr(l[k], n)]) :
            l \in TermLists(n, MaxTerms) \ {<<>>}}

InitExpr ==
    /\ nvars \in 2..4
    /\ orient \in BOOLEAN
    /\ args \in ExprInputs(nvars)
    /\ minterms = {}
    /\ nrows = 0 /\ ncols = 0
    /\ ones_cells = {}
    /\ candidates = <<>>
    /\ chosen = <<>>
    /\ covered_all = {}
    /\ remaining = {}
    /\ essCount = 0
    /\ ret = [error |-> "", groups |-> <<>>]
    /\ pc = "expr"

\* the call: a list of groups, or a ValueError
ExprToGroups ==
    /\ pc = "expr"
    /\ ret' = expression_to_groups(args, nvars, orient)
    /\ nrows' = map_dimensions(nvars)[1]
    /\ ncols' = map_dimensions(nvars)[2]
    /\ pc' = IF ret'.error = "" THEN "returned" ELSE "raised"
    /\ UNCHANGED <<nvars, orient, minterms, ones_cells, candidates, chosen,
                   covered_all, remaining, essCount, args>>

NextExpr == ExprToGroups

SpecExpr == InitExpr /\ [][NextExpr]_vars

\* both producers of GroupRects
NextGroups == SelStart \/ SelEssentialPass \/ SelGreedyStep \/ SelReturn
              \/ ExprToGroups

SpecGroups == (InitSelect \/ InitExpr) /\ [][NextGroups]_vars

---------------------------------------------------------------------------
(* logic.py: validate_minterm_range, and the minterm mode of app.py        *)

\* the largest valid index taken one too large
validate_minterm_range_off_by_one(mins, n) ==
    LET max_valid == Pow2(n)
        invalid == SelectSeq(mins, LAMBDA m : m < 0 \/ m > max_valid)
    IN  [raised |-> invalid # <<>>,
         n |-> n,
         max_valid |-> max_valid,
         values |-> SortedSeq(Range(invalid))]

\* raised: whether ValueError is raised; n, max_valid and values are what
\* its message shows: values is sorted(set(invalid))
validate_minterm_range(mins, n) ==
    LET max_valid == Pow2(n) - 1
        invalid == SelectSeq(mins, LAMBDA m : m < 0 \/ m > max_valid)
    IN  [raised |-> invalid # <<>>,
         n |-> n,
         max_valid |-> max_valid,
         values |-> SortedSeq(Range(invalid))]

MaxLen == 2
ValueSlack == 2

\* integers around both ends of the valid range 0..2^n-1
InputValues(n) ==
    ((0 - ValueSlack)..1) \cup ((Pow2(n) - 2)..(Pow2(n) - 1 + ValueSlack))

RECURSIVE ListsUpTo(_, _)
ListsUpTo(V, k) ==
    IF k <= 0 THEN {<<>>}
    ELSE LET shorter == ListsUpTo(V, k - 1)
         IN  shorter \cup {Append(l, v) : l \in {x \in shorter : Len(x) = k - 1}, v \in V}

\* app.py lines 119-120: the two parsed lists; minterms keeps the minterm
\* list as it was entered
InitApp ==
    /\ nvars \in 2..4
    /\ orient = TRUE
    /\ args \in [mins : ListsUpTo(InputValues(nvars), MaxLen),
                 dcs : ListsUpTo(InputValues(nvars), MaxLen - 1)]
    /\ minterms = args
    /\ nrows = 0 /\ ncols = 0
    /\ ones_cells = {}
    /\ candidates = <<>>
    /\ chosen = <<>>
    /\ covered_all = {}
    /\ remaining = {}
    /\ essCount = 0
    /\ ret = [raised |-> FALSE, n |-> nvars, max_valid |-> 0, values |-> <<>>]
    /\ pc = "validate_mins"

\* app.py line 121, and lines 225-226 when it raises
AppValidateMins ==
    /\ pc = "validate_mins"
    /\ ret' = validate_minterm_range(args.mins, nvars)
    /\ pc' = IF ret'.raised THEN "error_mins" ELSE "validate_dcs"
    /\ UNCHANGED <<nvars, orient, minterms, selVars, args>>

\* app.py line 122, and lines 225-226 when it raises
AppValidateDcs ==
    /\ pc = "validate_dcs"
    /\ ret' = validate_minterm_range(args.dcs, nvars)
    /\ pc' = IF ret'.raised THEN "error_dcs" ELSE "simplify"
    /\ UNCHANGED <<nvars, orient, minterms, selVars, args>>

\* app.py lines 125-221: simplification and grouping start here
AppSimplify ==
    /\ pc = "simplify"
    /\ pc' = "simplified"
    /\ UNCHANGED <<nvars, orient, minterms, selVars, args, ret>>

NextApp == AppValidateMins \/ AppValidateDcs \/ AppSimplify

SpecApp == InitApp /\ [][NextApp]_vars

---------------------------------------------------------------------------
(* Properties                                                              *)

ChosenCells == UNION {chosen[i].cells : i \in 1..Len(chosen)}

\* C1: when select_group_rectangles has returned, the union of the cells of
\* the returned rectangles is exactly ones_cells (every 1-cell covered, no
\* cell outside ones_cells in any rectangle); for empty ones_cells the
\* result is the empty sequence.
C1_ExactCover ==
    pc = "done" =>
        /\ ChosenCells = ones_cells
        /\ \A i \in 1..Len(chosen) : chosen[i].cells \subseteq ones_cells
        /\ (ones_cells = {} => chosen = <<>>)

C1_Witness ==
    /\ pc = "done"
    /\ nvars = 4
    /\ Len(chosen) >= 4
    /\ essCount >= 1
    /\ essCount < Len(chosen)

BitsToIndex(bits) == 8 * bits[1] + 4 * bits[2] + 2 * bits[3] + bits[4]

\* C2: idx_to_rc lands inside the grid of map_dimensions(n), two different
\* indices land on different cells and the grid has exactly 2^n cells (a
\* bijection); for n = 4 the bits (A,B,C,D) rc_to_bits_4 gives for the cell,
\* read as a binary number with A most significant, are the index again.
C2_Bijection ==
    pc \in {"mapped", "bits"} =>
        /\ nrows * ncols = Pow2(nvars)
        /\ \A k \in 1..2 : /\ ret.rc[k][1] \in 0..(nrows - 1)
                           /\ ret.rc[k][2] \in 0..(ncols - 1)
        /\ (args.i # args.j => ret.rc[1] # ret.rc[2])
        /\ (pc = "bits" => /\ BitsToIndex(ret.bits[1]) = args.i
                           /\ BitsToIndex(ret.bits[2]) = args.j)

C2_Witness ==
    /\ pc = "bits"
    /\ ~orient
    /\ args.i = 9
    /\ args.j = 6
    /\ ret.bits = << <<1, 0, 0, 1>>, <<0, 1, 1, 0>> >>

\* one step along a single axis, with wrap-around, between distinct cells
StepAdjacent(x, y, nr, nc) ==
    /\ x # y
    /\ \/ (x[2] = y[2] /\ y[1] = (x[1] + 1) % nr)
       \/ (x[1] = y[1] /\ y[2] = (x[2] + 1) % nc)

DifferingBits(i, j, n) == {k \in 0..(n - 1) : Bit(i, k) # Bit(j, k)}

\* C3: Gray adjacency: two indices whose cells are one step apart along one
\* axis (with wrap-around) differ in exactly one bit.
C3_GrayAdjacency ==
    (pc = "mapped" /\ StepAdjacent(ret.rc[1], ret.rc[2], nrows, ncols)) =>
        Cardinality(DifferingBits(args.i, args.j, nvars)) = 1

\* the wrap-around step from the last row to the first, n = 4
C3_Witness ==
    /\ pc = "mapped"
    /\ nvars = 4
    /\ ret.rc[1] = <<3, 2>>
    /\ ret.rc[2] = <<0, 2>>
    /\ Cardinality(DifferingBits(args.i, args.j, nvars)) = 1

\* the term written in A,B,C,D order: a prime on the variables fixed to 0,
\* free variables left out, "1" when all are free
TermText(fixed) ==
    LET lit(v) == IF v \notin DOMAIN fixed THEN ""
                  ELSE IF fixed[v] = 0 THEN VarNames[v] \o "'" ELSE VarNames[v]
    IN  IF DOMAIN fixed = {} THEN "1" ELSE lit(1) \o lit(2) \o lit(3) \o lit(4)

\* C8: n = 4, AB on columns: when ones_cells is the cell set of one product
\* term, select_group_rectangles returns exactly one rectangle, its cells are
\* ones_cells, and its label is the term in A,B,C,D order; the even minterms
\* give one rectangle of 8 cells labelled D'.
C8_SingleTermLabel ==
    (pc = "labelled" /\ nvars = 4) =>
        /\ Len(chosen) = 1
        /\ chosen[1].cells = ones_cells
        /\ Cardinality(ones_cells) = Cardinality(TermMinterms(args, nvars))
        /\ ret = <<TermText(args)>>
        /\ (minterms = {0, 2, 4, 6, 8, 10, 12, 14} =>
               Cardinality(chosen[1].cells) = 8 /\ ret = <<"D'">>)

C8_Witness ==
    /\ pc = "labelled"
    /\ nvars = 4
    /\ minterms = {0, 2, 4, 6, 8, 10, 12, 14}
    /\ Len(chosen) = 1
    /\ ret = <<"D'">>

\* C9: scenario A: n = 2, minterms {1,3}: the cells are those of (A=0,B=1)
\* and (A=1,B=1); one rectangle of 2 cells on the B=1 line is returned, it
\* was selected by the essential loop, and its label is "B".
C9_ScenarioA ==
    (pc = "labelled" /\ nvars = 2 /\ minterms = {1, 3}) =>
        /\ ones_cells = {<<1, 0>>, <<1, 1>>}
        /\ Len(chosen) = 1
        /\ chosen[1].cells = ones_cells
        /\ essCount = 1
        /\ ret = <<"B">>

\* the sizes 1, 2, 4, ... not exceeding limit
PowersUpTo(limit) == {k \in 1..limit : \E e \in 0..limit : k = Pow2(e)}

\* the cell sets of the valid rectangles of each grid: power-of-two spans,
\* every wrap-around offset
ValidRectSets ==
    [n \in 2..4 |->
       LET nr == map_dimensions(n)[1]
           nc == map_dimensions(n)[2]
       IN  {rect_cells(r0, h, c0, w, nr, nc) :
              r0 \in 0..(nr - 1), h \in PowersUpTo(nr),
              c0 \in 0..(nc - 1), w \in PowersUpTo(nc)}]

InsideRects == {R \in ValidRectSets[nvars] : R \subseteq ones_cells}

\* some k or fewer rectangles of rects cover todo
RECURSIVE CanCover(_, _, _)
CanCover(rects, todo, k) ==
    \/ todo = {}
    \/ /\ k > 0
       /\ LET c == CHOOSE c \in todo : TRUE
          IN  \E R \in rects : c \in R /\ CanCover(rects, todo \ R, k - 1)

IsMinimalCount(k) ==
    /\ CanCover(InsideRects, ones_cells, k)
    /\ (k > 0 => ~CanCover(InsideRects, ones_cells, k - 1))

\* C10 as stated: the number of rectangles returned is the smallest number
\* of valid rectangles inside ones_cells whose union is ones_cells.
C10_MinimalCover == pc = "done" => IsMinimalCount(Len(chosen))

\* C10 as amended: the rectangles returned are valid rectangles inside
\* ones_cells with union ones_cells, so their number is at least the
\* minimum; it is at most the minimum plus two, and equal to the minimum on
\* the 2x2 grid; for n = 4, minterms {1,5,6,7,11,12,13,15}, five rectangles
\* are returned where four suffice.
C10_NearMinimalCover ==
    pc = "done" =>
        /\ \A i \in 1..Len(chosen) : chosen[i].cells \in InsideRects
        /\ ChosenCells = ones_cells
        /\ (Len(chosen) >= 3 => ~CanCover(InsideRects, ones_cells, Len(chosen) - 3))
        /\ (nvars = 2 => IsMinimalCount(Len(chosen)))
        /\ ((nvars = 4 /\ minterms = {1, 5, 6, 7, 11, 12, 13, 15}) =>
               /\ Len(chosen) = 5
               /\ CanCover(InsideRects, ones_cells, 4)
               /\ ~CanCover(InsideRects, ones_cells, 3))

C10_Witness ==
    /\ pc = "done"
    /\ nvars = 4
    /\ minterms = {1, 5, 6, 7, 11, 12, 13, 15}
    /\ Len(chosen) = 5
\* C4: round trip: for every set M of minterm indices, the empty set
\* included, truth_minterms(minterms_to_expression(M, vars), vars) returns
\* the elements of M in ascending order.
C4_RoundTrip ==
    pc \in {"evaluated", "raised"} =>
        /\ pc = "evaluated"
        /\ ret.mins = SortedSeq(minterms)

\* the round trip of every non-empty set
RoundTripNonEmpty ==
    (pc \in {"evaluated", "raised"} /\ minterms # {}) =>
        /\ pc = "evaluated"
        /\ ret.mins = SortedSeq(minterms)

\* the cells of the minterms a term leaves open, in the given orientation
TermCells(fixed, n, o) == {idx_to_rc(n, m, o) : m \in TermMinterms(fixed, n)}

\* the fixed literals of a term of the expression, read off its factors
FixedLiterals(term) ==
    LET fs == Factors(term)
        var(f) == IF f.kind = "Symbol" THEN f.var ELSE f.args[1].var
    IN  [v \in {var(fs[i]) : i \in 1..Len(fs)} |->
           IF \E i \in 1..Len(fs) : fs[i].kind = "Symbol" /\ fs[i].var = v THEN 1 ELSE 0]

WholeGrid(n, o) ==
    GroupRect(0, map_dimensions(n)[1], 0, map_dimensions(n)[2],
              (0..(map_dimensions(n)[1] - 1)) \X (0..(map_dimensions(n)[2] - 1)))

IsConstant(expr, b) == expr.kind \in {"PyBool", "BooleanAtom"} /\ expr.val = b

ExprTerms(expr) == IF expr.kind = "Or" THEN expr.args ELSE <<expr>>

\* C5: expression_to_groups returns one GroupRect per product term, in term
\* order, each with the cells of all minterms consistent with the term's
\* fixed literals; for the constant true, as the simplifier produces it, one
\* rectangle (0, nrows, 0, ncols) with the whole grid; for the constant
\* false the empty list.
C5_OneGroupPerTerm ==
    (pc \in {"returned", "raised"} /\ args.kind # "None") =>
        /\ pc = "returned"
        /\ IF IsConstant(args, FALSE) THEN ret.groups = <<>>
           ELSE IF IsConstant(args, TRUE) THEN ret.groups = <<WholeGrid(nvars, orient)>>
           ELSE /\ Len(ret.groups) = Len(ExprTerms(args))
                /\ \A k \in 1..Len(ret.groups) :
                     ret.groups[k].cells =
                         TermCells(FixedLiterals(ExprTerms(args)[k]), nvars, orient)

\* the same for every input but SymPy's true
OneGroupPerTermButSymTrue ==
    (pc \in {"returned", "raised"} /\ args.kind # "None"
       /\ ~(args.kind = "BooleanAtom" /\ args.val)) =>
        /\ pc = "returned"
        /\ IF IsConstant(args, FALSE) THEN ret.groups = <<>>
           ELSE IF IsConstant(args, TRUE) THEN ret.groups = <<WholeGrid(nvars, orient)>>
           ELSE /\ Len(ret.groups) = Len(ExprTerms(args))
                /\ \A k \in 1..Len(ret.groups) :
                     ret.groups[k].cells =
                         TermCells(FixedLiterals(ExprTerms(args)[k]), nvars, orient)

WellFormed(g, nr, nc) ==
    /\ g.cells = rect_cells(g.r0, g.rows, g.c0, g.cols, nr, nc)
    /\ g.rows \in PowersUpTo(nr)
    /\ g.cols \in PowersUpTo(nc)

\* C6: every GroupRect select_group_rectangles has chosen and every
\* GroupRect expression_to_groups returns has cells equal to
\* rect_cells(r0, rows, c0, cols, nrows, ncols), with rows and cols powers of
\* two not exceeding nrows and ncols; expression_to_groups never raises the
\* contiguous-span error.
C6_GroupRectWellFormed ==
    /\ pc = "done" =>
          \A i \in 1..Len(chosen) : WellFormed(chosen[i], nrows, ncols)
    /\ pc = "returned" =>
          \A k \in 1..Len(ret.groups) : WellFormed(ret.groups[k], nrows, ncols)
    /\ pc = "raised" => ret.error # SpanError

\* a term with A free and B = 0 (columns 0 and 3: the wrap-around span), and
\* a selection that chose several rectangles
C6_Witness ==
    \/ /\ pc = "returned"
       /\ nvars = 4
       /\ orient
       /\ Len(ret.groups) = 2
       /\ ret.groups[1].c0 = 3
       /\ ret.groups[1].cols = 2
       /\ ret.groups[1].rows = 4
    \/ /\ pc = "done"
       /\ Len(chosen) >= 3
       /\ chosen[1].rows = 2
       /\ chosen[1].r0 = 3

OutOfRange(list, n) == {list[i] : i \in {j \in 1..Len(list) : list[j] < 0 \/ list[j] > Pow2(n) - 1}}

\* C7: validate_minterm_range raises exactly when some listed index is < 0
\* or > 2^n-1, and the error names exactly the offending values; otherwise
\* it returns and the input is as it was entered.  The minterm list and then
\* the don't-care list are checked before simplification or grouping starts.
C7_RangeValidation ==
    /\ pc = "error_mins" =>
          /\ OutOfRange(args.mins, nvars) # {}
          /\ ret.values = SortedSeq(OutOfRange(args.mins, nvars))
    /\ pc \in {"validate_dcs", "error_dcs", "simplify", "simplified"} =>
          OutOfRange(args.mins, nvars) = {}
    /\ pc = "error_dcs" =>
          /\ OutOfRange(args.dcs, nvars) # {}
          /\ ret.values = SortedSeq(OutOfRange(args.dcs, nvars))
    /\ pc \in {"simplify", "simplified"} => OutOfRange(args.dcs, nvars) = {}
    /\ args = minterms
    /\ (pc = "error_mins" /\ nvars = 3 /\ 9 \in Range(args.mins)) => 9 \in Range(ret.values)

\* scenario D: n = 3, the entry 9
C7_Witness ==
    /\ pc = "error_mins"
    /\ nvars = 3
    /\ args.mins = <<1, 9>>
    /\ ret.values = <<9>>

---------------------------------------------------------------------------
(* the greedy rule of select_group_rectangles                              *)

\* a strictly before b in the order the candidates are claimed to have:
\* larger area first; for equal area larger row-span, then larger
\* column-span, then smaller r0, then smaller c0
OrderedBefore(a, b) ==
    LET aa == a.rows * a.cols
        ab == b.rows * b.cols
    IN  \/ aa > ab
        \/ /\ aa = ab
           /\ \/ a.rows > b.rows
              \/ /\ a.rows = b.rows
                 /\ \/ a.cols > b.cols
                    \/ /\ a.cols = b.cols
                       /\ \/ a.r0 < b.r0
                          \/ a.r0 = b.r0 /\ a.c0 < b.c0

CandidatesOrdered ==
    \A i \in 1..(Len(candidates) - 1) : OrderedBefore(candidates[i], candidates[i + 1])

CellsBefore(ch, k) == UNION {ch[i].cells : i \in 1..(k - 1)}

\* ch extended at its end to ch2, each added rectangle covering a cell that
\* no rectangle before it covers
ExtendedByNew(ch, ch2) ==
    /\ Len(ch2) > Len(ch)
    /\ SubSeq(ch2, 1, Len(ch)) = ch
    /\ \A k \in (Len(ch) + 1)..Len(ch2) : ch2[k].cells \ CellsBefore(ch2, k) # {}

\* the last rectangle of the new list is the earliest candidate with the
\* largest number of cells uncovered before the step
EarliestMaximum ==
    LET best      == chosen'[Len(chosen')]
        uncovered == ones_cells \ ChosenCells
        ov(i)     == Cardinality(candidates[i].cells \cap uncovered)
    IN  \E i \in 1..Len(candidates) :
           /\ candidates[i] = best
           /\ ov(i) >= 1
           /\ \A j \in 1..Len(candidates) : ov(j) <= ov(i)
           /\ \A j \in 1..(i - 1) : ov(j) < ov(i)

\* C11: every greedy step appends one rectangle, the earliest candidate (in
\* the order: area descending, then row-span descending, column-span
\* descending, r0 ascending, c0 ascending) among those with the largest
\* number of uncovered 1-cells; every rectangle added in either phase covers
\* a cell that was uncovered just before; the list only grows at its end,
\* and the rectangles of the essential phase stay in front of those of the
\* greedy phase.
C11_GreedyRule ==
    [][/\ (pc = "essential" /\ chosen' # chosen) =>
              /\ ExtendedByNew(chosen, chosen')
              /\ pc' = "essential"
       /\ (pc = "essential" /\ pc' = "greedy") => essCount' = Len(chosen)
       /\ (pc = "greedy" /\ chosen' # chosen) =>
              /\ CandidatesOrdered
              /\ Len(chosen') = Len(chosen) + 1
              /\ ExtendedByNew(chosen, chosen')
              /\ EarliestMaximum
              /\ essCount' = essCount
              /\ essCount <= Len(chosen)
       /\ pc = "greedy" => chosen' \in {chosen, Append(chosen, chosen'[Len(chosen')])}
       /\ pc = "done" => chosen' = chosen]_vars

\* a greedy step has been taken after an essential pass selected something,
\* and the rectangle it took is neither the first nor the only candidate
C11_Witness ==
    /\ pc = "greedy"
    /\ nvars = 4
    /\ essCount >= 1
    /\ Len(chosen) >= essCount + 2
    /\ remaining # {}
    /\ chosen[Len(chosen)] # candidates[1]


---------------------------------------------------------------------------
(* termination of select_group_rectangles                                  *)

Uncovered == ones_cells \ covered_all

EssentialNow == EssentialCells(candidates, ones_cells, covered_all)

\* no essential found in a pass is already chosen
EssentialsAreNew ==
    pc = "essential" =>
        \A cell \in EssentialNow : Containing(candidates, cell)[1] \notin Range(chosen)

\* a pass that finds an essential adds a rectangle and shrinks the uncovered
\* set, and the loop goes round again
EssentialPassShrinks ==
    (pc = "essential" /\ EssentialNow # {}) =>
        /\ Len(chosen') > Len(chosen)
        /\ (ones_cells \ covered_all') \subseteq Uncovered
        /\ (ones_cells \ covered_all') # Uncovered
        /\ pc' = "essential"

\* a greedy iteration shrinks the uncovered set and does not leave the loop
GreedyStepShrinks ==
    (pc = "greedy" /\ remaining # {}) =>
        /\ remaining' \subseteq remaining
        /\ remaining' # remaining
        /\ Len(chosen') = Len(chosen) + 1
        /\ pc' = "greedy"

\* the function returns with nothing left uncovered
ReturnsCovered == pc = "done" => (remaining = {} /\ Uncovered = {})

\* every step inside a loop either shrinks the uncovered set or leaves the
\* loop, so neither loop can run for more steps than there are 1-cells
LoopVariant ==
    (pc \in {"essential", "greedy"} /\ pc' = pc) =>
        Cardinality(ones_cells \ covered_all') < Cardinality(Uncovered)

\* until the function has returned, a step that changes the state can be
\* taken: a pass of the essential loop either finds nothing and leaves the
\* loop or finds an essential that is not yet chosen
NotStuck ==
    \/ pc = "done"
    \/ /\ pc = "essential"
       /\ \/ EssentialNow = {}
          \/ \E cell \in EssentialNow :
                Containing(candidates, cell)[1] \notin Range(chosen)
    \/ /\ pc \in {"select", "greedy"}
       /\ ENABLED <<SelStart \/ SelGreedyStep \/ SelReturn>>_vars

\* C12: select_group_rectangles terminates: each pass of the essential loop
\* that finds an essential candidate adds a rectangle not already chosen and
\* strictly shrinks the uncovered set, each greedy iteration strictly
\* shrinks the uncovered set, the greedy loop ends with the uncovered set
\* empty and never through the zero-overlap break, and no state before the
\* return is one where the function can only repeat itself.
C12_Termination ==
    /\ []EssentialsAreNew
    /\ [][EssentialPassShrinks /\ GreedyStepShrinks /\ LoopVariant]_vars
    /\ []ReturnsCovered
    /\ []NotStuck

\* a return after two essential passes' worth of work and two greedy steps
C12_Witness ==
    /\ pc = "done"
    /\ nvars = 4
    /\ essCount >= 2
    /\ Len(chosen) >= essCount + 2
    /\ remaining = {}


---------------------------------------------------------------------------
(* the rectangles returned are prime implicants                            *)

\* no valid rectangle inside ones_cells strictly contains the cells of g
IsPrime(g) ==
    \A R \in ValidRectSets[nvars] :
        (g.cells \subseteq R /\ g.cells # R) => ~(R \subseteq ones_cells)

\* C13: every rectangle select_group_rectangles returns is maximal: no valid
\* rectangle (power-of-two spans, any wrap-around offset) inside ones_cells
\* strictly contains its cell set; and no two returned rectangles have the
\* same cell set.
C13_PrimeImplicants ==
    pc = "done" =>
        /\ \A i \in 1..Len(chosen) : IsPrime(chosen[i])
        /\ \A i, j \in 1..Len(chosen) : i # j => chosen[i].cells # chosen[j].cells

\* a return with an isolated cell, a rectangle that wraps round the right
\* edge, and a rectangle smaller than another returned one
C13_Witness ==
    /\ pc = "done"
    /\ nvars = 4
    /\ essCount >= 1
    /\ \E i \in 1..Len(chosen) :
          /\ chosen[i].c0 + chosen[i].cols > ncols
          /\ chosen[i].rows * chosen[i].cols >= 4
    /\ \E i, j \in 1..Len(chosen) :
          /\ chosen[i].rows * chosen[i].cols = 2
          /\ chosen[j].cells \cap chosen[i].cells # {}


---------------------------------------------------------------------------
(* what the essential phase can select                                     *)

\* the wrap-around row and column neighbours of a cell
Neighbours(cell) ==
    {<<(cell[1] + 1) % nrows, cell[2]>>, <<(cell[1] + nrows - 1) % nrows, cell[2]>>,
     <<cell[1], (cell[2] + 1) % ncols>>, <<cell[1], (cell[2] + ncols - 1) % ncols>>}

IsolatedCells == {cell \in ones_cells : Neighbours(cell) \cap ones_cells = {}}

SingleCellRect(cell) == GroupRect(cell[1], 1, cell[2], 1, {cell})

IsolatedRects == {SingleCellRect(cell) : cell \in IsolatedCells}

\* C14: the essential phase of select_group_rectangles finds an essential
\* only for an isolated 1-cell (no wrap-around row or column neighbour is a
\* 1-cell), the rectangle it selects is that cell's 1x1 rectangle, and when
\* the phase ends it has selected exactly the 1x1 rectangles of the isolated
\* 1-cells, whatever the order in which the cells were visited; no rectangle
\* of area 2 or more is selected as essential.
C14_EssentialOnlyIsolated ==
    /\ pc = "essential" =>
          /\ EssentialNow = IsolatedCells \ covered_all
          /\ \A cell \in EssentialNow :
                Containing(candidates, cell)[1] = SingleCellRect(cell)
          /\ Range(chosen) \subseteq IsolatedRects
    /\ pc \in {"greedy", "done"} =>
          /\ essCount <= Len(chosen)
          /\ essCount = Cardinality(IsolatedCells)
          /\ {chosen[i] : i \in 1..essCount} = IsolatedRects
          /\ \A i \in 1..essCount : chosen[i].rows * chosen[i].cols = 1

\* the essential phase has ended with two isolated cells selected while
\* other 1-cells, which have neighbours, are left to the greedy loop
C14_Witness ==
    /\ pc = "greedy"
    /\ nvars = 4
    /\ essCount = 2
    /\ Len(chosen) = 2
    /\ Cardinality(remaining) >= 3

=============================================================================
